---- MODULE Spec2Model ----
(***************************************************************************)
(* Model of the Patroni daemon control loop (patroni/__init__.py):         *)
(* signal handlers, dynamic-configuration bootstrap, the run() tick loop   *)
(* with its drift-corrected scheduling, and the shutdown sequence in the   *)
(* finally block of main().                                                *)
(*                                                                         *)
(* pc names the statement the single control thread executes next.         *)
(* Signals are delivered between any two statements; an exception raised   *)
(* by a handler unwinds from the statement pc names.                       *)
(***************************************************************************)
EXTENDS Integers, Sequences, FiniteSets, TLC

\* ---------------------------------------------------------------- bounds
MaxCfg == 2         \* dynamic configurations are 1..MaxCfg, 0 is none/empty
MaxTime == 4        \* the clock runs over 0..MaxTime
MaxWork == 3        \* one HA cycle takes 0..MaxWork time units
MaxTerm == 2        \* terminate signals counted (saturating)
MaxInt == 2         \* interrupts (SIGINT) delivered in one run
MaxHup == 2         \* reload signals counted (saturating)
MaxFail == 2        \* bootstrap failures counted (saturating)

\* dcs.loop_wait, the configured tick interval
LoopWait == 2

\* ---------------------------------------------------------------- state
VARIABLES
    pc,               \* next statement of the control thread
    received_sighup,  \* self._received_sighup
    received_sigterm, \* self._received_sigterm
    pending,          \* exception in flight while the finally block runs
    exitVia,          \* how the process ended ("none" while it runs)
    now,              \* time.time()
    next_run,         \* self.next_run
    dyn,              \* config.dynamic_configuration (0 = none/empty)
    cfgTags,          \* config.get('tags', {})
    tags,             \* self.tags
    cluster,          \* dcs.cluster: -1 no cluster, 0 no config, else config
    leader,           \* this node's leadership record exists in the store
    pgRunning,        \* the datastore process runs
    apiUp,            \* the status API accepts requests
    reloadFrom,       \* which caller reload_config() returns to
    \* ---- history variables (observations, never read by the program)
    nTerm,            \* terminate signals delivered
    nInt,             \* interrupts delivered
    hup,              \* reload signals delivered since the last read /
                      \* the last clear of the flag
    nSeq,             \* times the finally block of main() was entered
    seqLog,           \* calls made by the finally block, in order
    seqStart,         \* <<leader, pgRunning>> when the finally block began
    pausedSeen,       \* what ha.is_paused() answered in the finally block
    tick,             \* per-tick observations
    boot              \* per-pass observations of load_dynamic_configuration

vars == <<pc, received_sighup, received_sigterm, pending, exitVia, now,
          next_run, dyn, cfgTags, tags, cluster, leader, pgRunning, apiUp,
          reloadFrom, nTerm, nInt, hup, nSeq, seqLog, seqStart, pausedSeen,
          tick, boot>>

\* the program's own state and its collaborators' (no history variables)
progVars == <<pc, received_sighup, received_sigterm, pending, exitVia, now,
              next_run, dyn, cfgTags, tags, cluster, leader, pgRunning,
              apiUp, reloadFrom>>

\* groups of variables, for UNCHANGED
flags == <<received_sighup, received_sigterm>>
ctl == <<pending, exitVia, nSeq, seqStart, pausedSeen>>
clock == <<now, next_run>>
conf == <<dyn, cfgTags, tags, cluster>>
env == <<leader, pgRunning, apiUp>>

\* ---------------------------------------------------------------- regions
\* statements of Patroni.__init__ (main line 130, outside the try)
CtorPcs == {"get_cluster", "boot_apply", "boot_push", "construct"}
\* load_dynamic_configuration
BootPcs == {"get_cluster", "boot_apply", "boot_push"}
\* statements of reload_config
ReloadPcs == {"rc_tags", "rc_dcs", "rc_api", "rc_pg"}
\* statements of run() (main line 132, inside the try)
RunPcs == {"api_start", "loop_check", "check_sighup", "clear_sighup",
           "reload_local", "run_cycle", "cluster_check", "save_cache",
           "reap", "schedule", "watch"} \cup ReloadPcs
\* statements of the finally block of main()
FinallyPcs == {"api_shutdown", "is_paused", "pg_stop", "delete_leader"}

Min(a, b) == IF a < b THEN a ELSE b

\* ---------------------------------------------------------------- tags
Reserved == {"clonefrom", "nofailover", "noloadbalance"}

\* a tags section is a set of <<name, value>>; value 0 is falsy, 1 truthy
TagConfigs ==
    { {<<"nofailover", 0>>, <<"replicatefrom", 0>>},
      {<<"nofailover", 1>>, <<"clonefrom", 0>>, <<"replicatefrom", 1>>} }

get_tags(section) ==
    { t \in section : t[1] \notin Reserved \/ t[2] # 0 }

\* ---------------------------------------------------------------- history
\* sinceRead: a reload signal was delivered since the flag was last read
\* (line 101); sinceClear: deliveries since it was last cleared (line 102),
\* counted up to MaxHup; unserved: a reload signal was delivered and no
\* call of reload_local_configuration has begun since; all while the loop
\* can still read the flag
NewHup == [sinceRead |-> FALSE, sinceClear |-> 0, unserved |-> FALSE]
\* ha: run_cycle calls; reloadLocal: reload_local_configuration calls;
\* sawHup: what line 101 read; hupN, hupC: hup.sinceRead and
\* hup.sinceClear as of that read, kept until the HA cycle starts;
\* failedAt: the latest call of a reload that failed; dirInit: the data
\* directory was found initialised; saved: save_cache calls;
\* warned: overrun warnings; reconciled: passes of lines 108-110; reaped:
\* reap_children calls.  Kept from tick to tick: start: next_run when the
\* loop condition was last evaluated; anchor, onTime: next_run when it was
\* last set from the clock, and the ticks completed since by a wait that
\* timed out.  Dropped when the loop is left.
NewTick == [ha |-> 0, reloadLocal |-> 0, sawHup |-> FALSE, hupN |-> FALSE,
            hupC |-> 0, failedAt |-> "none", dirInit |-> FALSE,
            saved |-> 0, warned |-> 0, reconciled |-> 0, reaped |-> 0,
            start |-> 0, anchor |-> 0, onTime |-> 0]
\* failures: DCSError caught (saturating); lastErr: the latest call to the
\* store raised DCSError; snapshot, dynBefore: the fetched
\* snapshot and the dynamic configuration at the start of the pass;
\* bootDcs: the bootstrap section the pass found (-1 none, else its dcs
\* value); branch: the branch of lines 40-45 taken; changed: what
\* set_dynamic_configuration answered; pushes: dcs.reload_config calls in
\* the pass; unpushed: the configuration changed and no dcs.reload_config
\* has succeeded since.  Dropped when run() starts.
NewBoot == [failures |-> 0, lastErr |-> FALSE, snapshot |-> -1,
            dynBefore |-> 0, bootDcs |-> -1, branch |-> "none",
            changed |-> FALSE, pushes |-> 0, unpushed |-> FALSE]

\* ---------------------------------------------------------------- Init
\* The state after setup_signal_handlers(), Config() and get_dcs()
\* (lines 21-25): both flags false, the handlers installed, the local
\* configuration loaded (with or without a cached dynamic configuration).
Init ==
    /\ pc = "get_cluster"
    /\ received_sighup = FALSE
    /\ received_sigterm = FALSE
    /\ pending = "none"
    /\ exitVia = "none"
    /\ now = 0
    /\ next_run = 0
    /\ dyn \in 0..MaxCfg
    /\ cfgTags \in TagConfigs
    /\ tags = {}
    /\ cluster = -1
    /\ leader = FALSE
    /\ pgRunning = FALSE
    /\ apiUp = FALSE
    /\ reloadFrom = "none"
    /\ nTerm = 0
    /\ nInt = 0
    /\ hup = NewHup
    /\ nSeq = 0
    /\ seqLog = <<>>
    /\ seqStart = <<FALSE, FALSE>>
    /\ pausedSeen = "unknown"
    /\ tick = NewTick
    /\ boot = NewBoot

\* ---------------------------------------------------------------- unwinding
\* An exception e raised at statement pc.  Inside Patroni() (line 130) no
\* handler is active and the process ends.  Inside run() the try of lines
\* 131-135 applies: KeyboardInterrupt is caught, everything else stays in
\* flight, and the finally block runs.  Inside the finally block the
\* exception leaves main().
Unwind(e) ==
    /\ IF pc \in RunPcs
       THEN /\ pc' = "api_shutdown"
            /\ pending' = (IF e = "KeyboardInterrupt" THEN "none" ELSE e)
            /\ nSeq' = nSeq + 1
            /\ seqStart' = <<leader, pgRunning>>
            /\ UNCHANGED exitVia
       ELSE /\ pc' = "exited"
            /\ exitVia' = e
            /\ pending' = "none"
            /\ UNCHANGED <<nSeq, seqStart>>
    /\ tick' = NewTick
    /\ hup' = NewHup
    /\ UNCHANGED pausedSeen

\* ---------------------------------------------------------------- signals
\* variant: the handler also cuts the current wait short by moving
\* next_run to the present
sighup_handler_hurry ==
    /\ pc # "exited"
    /\ received_sighup' = TRUE
    /\ next_run' = now
    /\ hup' = IF pc \in CtorPcs \cup RunPcs
              THEN [sinceRead |-> TRUE,
                    sinceClear |-> Min(hup.sinceClear + 1, MaxHup),
                    unserved |-> TRUE]
              ELSE hup
    /\ UNCHANGED <<pc, received_sigterm, ctl, now, conf, env, reloadFrom,
                   nTerm, nInt, seqLog, tick, boot>>

\* lines 71-72
sighup_handler ==
    /\ pc # "exited"
    /\ received_sighup' = TRUE
    /\ hup' = IF pc \in CtorPcs \cup RunPcs
              THEN [sinceRead |-> TRUE,
                    sinceClear |-> Min(hup.sinceClear + 1, MaxHup),
                    unserved |-> TRUE]
              ELSE hup
    /\ UNCHANGED <<pc, received_sigterm, ctl, clock, conf, env, reloadFrom,
                   nTerm, nInt, seqLog, tick, boot>>

\* variant: the handler without the test of line 75
FirstSigterm_always == TRUE

\* line 75: if not self._received_sigterm
FirstSigterm == ~received_sigterm

\* variant: the handler sets the flag and returns, leaving the loop to
\* poll it
sys_exit_missing == UNCHANGED <<pc, ctl, tick, hup>>

\* line 77: sys.exit() raises SystemExit at the interrupted statement
sys_exit == Unwind("SystemExit")

\* lines 74-77
sigterm_handler ==
    /\ pc # "exited"
    /\ nTerm' = Min(nTerm + 1, MaxTerm)
    /\ IF FirstSigterm
       THEN /\ received_sigterm' = TRUE
            /\ sys_exit
       ELSE UNCHANGED <<received_sigterm, pc, ctl, tick, hup>>
    /\ UNCHANGED <<received_sighup, clock, conf, env, reloadFrom, nInt,
                   seqLog, boot>>

\* SIGINT keeps Python's default handler, which raises KeyboardInterrupt
sigint_default ==
    /\ pc # "exited"
    /\ nInt < MaxInt
    /\ nInt' = nInt + 1
    /\ Unwind("KeyboardInterrupt")
    /\ UNCHANGED <<flags, clock, conf, env, reloadFrom, nTerm, seqLog,
                   boot>>

\* ---------------------------------------------------------------- bootstrap
\* config.set_dynamic_configuration(c): the new dynamic configuration and
\* whether the local configuration changed
set_dynamic_configuration(d, c) == [dyn |-> c, changed |-> d # c]

\* variant: the except clause gives up and load_dynamic_configuration
\* returns
AfterDCSError_giveup == "construct"

\* lines 37, 47-48: except DCSError logs a warning inside while True, so
\* the next statement is line 39 again
AfterDCSError == "get_cluster"

\* line 39: dcs.get_cluster() raises DCSError or returns a snapshot
get_cluster ==
    /\ pc = "get_cluster"
    /\ \/ /\ boot' = [boot EXCEPT !.failures = Min(@ + 1, MaxFail),
                                  !.lastErr = TRUE]
          /\ pc' = AfterDCSError
          /\ UNCHANGED cluster
       \/ \E c \in -1..MaxCfg :
             /\ cluster' = c
             /\ boot' = [boot EXCEPT !.lastErr = FALSE, !.snapshot = c,
                                     !.dynBefore = dyn, !.bootDcs = -1,
                                     !.branch = "none", !.changed = FALSE,
                                     !.pushes = 0]
             /\ pc' = "boot_apply"
    /\ UNCHANGED <<flags, ctl, clock, dyn, cfgTags, tags, env, reloadFrom,
                   nTerm, nInt, hup, seqLog, tick>>

\* variant: line 43 without the test of the cached dynamic configuration
BootBranch_nocachetest(b) ==
    IF cluster > 0 THEN "merge"
    ELSE IF b >= 0 THEN "seed"
    ELSE "none"

\* the branch of lines 40-45 taken when the local bootstrap section is b
\* (-1: the configuration has no bootstrap section)
BootBranch(b) ==
    IF cluster > 0 THEN "merge"
    ELSE IF dyn = 0 /\ b >= 0 THEN "seed"
    ELSE "none"

\* lines 40-46 up to the call of dcs.reload_config
boot_apply ==
    /\ pc = "boot_apply"
    /\ \E b \in -1..MaxCfg :
         LET br == BootBranch(b)
             r == IF br = "merge"
                  THEN set_dynamic_configuration(dyn, cluster)
                  ELSE IF br = "seed"
                       THEN set_dynamic_configuration(dyn, b)
                       ELSE [dyn |-> dyn, changed |-> FALSE]
         IN /\ dyn' = r.dyn
            /\ boot' = [boot EXCEPT !.bootDcs = b, !.branch = br,
                                    !.changed = r.changed,
                                    !.unpushed = @ \/ r.changed]
            /\ pc' = IF r.changed THEN "boot_push" ELSE "construct"
    /\ UNCHANGED <<flags, ctl, clock, cfgTags, tags, cluster, env,
                   reloadFrom, nTerm, nInt, hup, seqLog, tick>>

\* lines 42 / 45: dcs.reload_config(self.config), then break (46);
\* a DCSError goes back to line 39
boot_push ==
    /\ pc = "boot_push"
    /\ \/ /\ boot' = [boot EXCEPT !.pushes = @ + 1, !.unpushed = FALSE]
          /\ pc' = "construct"
       \/ /\ boot' = [boot EXCEPT !.pushes = @ + 1,
                                  !.failures = Min(@ + 1, MaxFail),
                                  !.lastErr = TRUE]
          /\ pc' = AfterDCSError
    /\ UNCHANGED <<flags, ctl, clock, conf, env, reloadFrom, nTerm, nInt,
                   hup, seqLog, tick>>

\* lines 28-34, then main() enters the try and calls run()
construct ==
    /\ pc = "construct"
    /\ tags' = get_tags(cfgTags)
    /\ next_run' = now
    /\ pc' = "api_start"
    /\ boot' = NewBoot
    /\ UNCHANGED <<flags, ctl, now, dyn, cfgTags, cluster, env, reloadFrom,
                   nTerm, nInt, hup, seqLog, tick>>

\* ---------------------------------------------------------------- run()
\* variant: the first run is scheduled one interval after the start
FirstRun_later == now + LoopWait

\* line 98: self.next_run = time.time()
FirstRun == now

\* lines 97-98
api_start ==
    /\ pc = "api_start"
    /\ apiUp' = TRUE
    /\ next_run' = FirstRun
    /\ tick' = [NewTick EXCEPT !.anchor = now]
    /\ pc' = "loop_check"
    /\ UNCHANGED <<flags, ctl, now, conf, leader, pgRunning, reloadFrom,
                   nTerm, nInt, hup, seqLog, boot>>

\* line 100: while not self._received_sigterm; leaving the loop returns
\* from run() and the finally block of main() runs
loop_check ==
    /\ pc = "loop_check"
    /\ IF received_sigterm
       THEN /\ pc' = "api_shutdown"
            /\ nSeq' = nSeq + 1
            /\ seqStart' = <<leader, pgRunning>>
            /\ hup' = NewHup
            /\ tick' = NewTick
       ELSE /\ pc' = "check_sighup"
            /\ tick' = [NewTick EXCEPT !.start = next_run,
                                       !.anchor = tick.anchor,
                                       !.onTime = tick.onTime]
            /\ UNCHANGED <<nSeq, seqStart, hup>>
    /\ UNCHANGED <<flags, pending, exitVia, pausedSeen, clock, conf, env,
                   reloadFrom, nTerm, nInt, seqLog, boot>>

\* variant: the flag is consumed and the configuration is not reloaded
AfterClear_skip == "run_cycle"

\* line 103 follows line 102 inside the if of line 101
AfterClear == "reload_local"

\* line 101: if self._received_sighup
check_sighup ==
    /\ pc = "check_sighup"
    /\ pc' = IF received_sighup THEN "clear_sighup" ELSE "run_cycle"
    /\ tick' = [tick EXCEPT !.sawHup = received_sighup,
                            !.hupN = hup.sinceRead,
                            !.hupC = hup.sinceClear]
    /\ hup' = [hup EXCEPT !.sinceRead = FALSE]
    /\ UNCHANGED <<flags, ctl, clock, conf, env, reloadFrom, nTerm, nInt,
                   seqLog, boot>>

\* variant: line 102 missing, the flag stays set
clear_sighup_noclear ==
    /\ pc = "clear_sighup"
    /\ hup' = [hup EXCEPT !.sinceClear = 0]
    /\ pc' = "reload_local"
    /\ UNCHANGED <<flags, ctl, clock, conf, env, reloadFrom, nTerm, nInt,
                   seqLog, tick, boot>>

\* line 102: self._received_sighup = False
clear_sighup ==
    /\ pc = "clear_sighup"
    /\ received_sighup' = FALSE
    /\ hup' = [hup EXCEPT !.sinceClear = 0]
    /\ pc' = AfterClear
    /\ UNCHANGED <<received_sigterm, ctl, clock, conf, env, reloadFrom,
                   nTerm, nInt, seqLog, tick, boot>>

\* what the configuration collaborator does with a failure of its own
\* (an unreadable file, a configuration it cannot apply): it logs it and
\* answers "not changed"
AbsorbedFailures == {FALSE, TRUE}

\* line 103: config.reload_local_configuration() answers whether the local
\* configuration changed
reload_local ==
    /\ pc = "reload_local"
    /\ \/ \E failed \in AbsorbedFailures :
             /\ tick' = [tick EXCEPT !.reloadLocal = @ + 1,
                                     !.failedAt =
                                         IF failed THEN "reload_local"
                                         ELSE @]
             /\ pc' = "run_cycle"
             /\ UNCHANGED <<cfgTags, reloadFrom>>
       \/ \E t \in TagConfigs \ {cfgTags} :
             /\ tick' = [tick EXCEPT !.reloadLocal = @ + 1]
             /\ cfgTags' = t
             /\ reloadFrom' = "local"
             /\ pc' = "rc_tags"
    /\ hup' = [hup EXCEPT !.unserved = FALSE]
    /\ UNCHANGED <<flags, ctl, clock, dyn, tags, cluster, env, nTerm, nInt,
                   seqLog, boot>>

\* where reload_config() returns to: line 106 or line 112
ReturnPc == IF reloadFrom = "local" THEN "run_cycle" ELSE "save_cache"

\* variant: reload_config without line 60
rc_tags_stale ==
    /\ pc = "rc_tags"
    /\ pc' = "rc_dcs"
    /\ UNCHANGED <<flags, ctl, clock, conf, env, reloadFrom, nTerm, nInt,
                   hup, seqLog, tick, boot>>

\* line 60: self.tags = self.get_tags()
rc_tags ==
    /\ pc = "rc_tags"
    /\ tags' = get_tags(cfgTags)
    /\ pc' = "rc_dcs"
    /\ UNCHANGED <<flags, ctl, clock, dyn, cfgTags, cluster, env,
                   reloadFrom, nTerm, nInt, hup, seqLog, tick, boot>>

\* variant: reload_config without its try/except, the exception leaves
\* run()
ReloadCaught_uncaught ==
    /\ pc' = "api_shutdown"
    /\ reloadFrom' = "none"
    /\ tick' = NewTick

\* what a raising call inside reload_config leads to: except Exception
\* (lines 64-65) logs it and reload_config returns
ReloadCaught ==
    /\ pc' = ReturnPc
    /\ reloadFrom' = "none"
    /\ tick' = [tick EXCEPT !.failedAt = pc]

\* lines 61-63: propagation to the store, the status API and the datastore;
\* each call returns or raises
rc_propagate ==
    /\ pc \in {"rc_dcs", "rc_api", "rc_pg"}
    /\ \/ /\ pc' = CASE pc = "rc_dcs" -> "rc_api"
                    [] pc = "rc_api" -> "rc_pg"
                    [] pc = "rc_pg" -> ReturnPc
          /\ reloadFrom' = IF pc = "rc_pg" THEN "none" ELSE reloadFrom
          /\ UNCHANGED tick
       \/ ReloadCaught
    /\ UNCHANGED <<flags, ctl, clock, conf, env, nTerm, nInt, hup, seqLog,
                   boot>>

\* line 106: ha.run_cycle() takes d time units, refreshes the cached
\* cluster snapshot, may start or stop the datastore and may take or lose
\* the leadership record
run_cycle ==
    /\ pc = "run_cycle"
    /\ tick' = [tick EXCEPT !.ha = @ + 1, !.hupN = FALSE, !.hupC = 0]
    /\ \E d \in 0..MaxWork :
          /\ now + d <= MaxTime
          /\ now' = now + d
    /\ cluster' \in -1..MaxCfg
    /\ pgRunning' \in BOOLEAN
    /\ leader' \in (IF pgRunning' THEN BOOLEAN ELSE {FALSE})
    /\ pc' = "cluster_check"
    /\ UNCHANGED <<flags, ctl, next_run, dyn, cfgTags, tags, apiUp,
                   reloadFrom, nTerm, nInt, hup, seqLog, boot>>

\* lines 108-110
cluster_check ==
    /\ pc = "cluster_check"
    /\ \E failed \in AbsorbedFailures :
         LET r == IF cluster > 0 /\ ~failed
                  THEN set_dynamic_configuration(dyn, cluster)
                  ELSE [dyn |-> dyn, changed |-> FALSE]
         IN /\ cluster > 0 \/ ~failed
            /\ dyn' = r.dyn
            /\ tick' = [tick EXCEPT !.reconciled = @ + 1,
                                    !.failedAt =
                                        IF failed
                                        THEN "set_dynamic_configuration"
                                        ELSE @]
            /\ IF r.changed
               THEN /\ reloadFrom' = "cluster"
                    /\ pc' = "rc_tags"
               ELSE /\ pc' = "save_cache"
                    /\ UNCHANGED reloadFrom
    /\ UNCHANGED <<flags, ctl, clock, cfgTags, tags, cluster, env, nTerm,
                   nInt, hup, seqLog, boot>>

\* variant: the cache is saved in every tick
SaveWanted_always(initialised) == TRUE

\* line 112: if not self.postgresql.data_directory_empty()
SaveWanted(initialised) == initialised

\* lines 112-113: initialised is the answer of
\* not postgresql.data_directory_empty()
save_cache ==
    /\ pc = "save_cache"
    /\ \E initialised \in BOOLEAN :
          tick' = [tick EXCEPT !.dirInit = initialised,
                               !.saved = IF SaveWanted(initialised) THEN @ + 1
                                         ELSE @]
    /\ pc' = "reap"
    /\ UNCHANGED <<flags, ctl, clock, conf, env, reloadFrom, nTerm, nInt,
                   hup, seqLog, boot>>

\* line 115
reap_children ==
    /\ pc = "reap"
    /\ tick' = [tick EXCEPT !.reaped = @ + 1]
    /\ pc' = "schedule"
    /\ UNCHANGED <<flags, ctl, clock, conf, env, reloadFrom, nTerm, nInt,
                   hup, seqLog, boot>>

\* variant: the next run is counted from the end of the work
Advanced_fromnow == now + LoopWait

\* line 84: self.next_run += self.dcs.loop_wait
Advanced == next_run + LoopWait

\* variant: a tick that ends exactly at the advanced next_run still waits
Overrun_strict(nap_time) == nap_time < 0

\* line 87: if nap_time <= 0
Overrun(nap_time) == nap_time <= 0

\* lines 84-92 of schedule_next_run; time.sleep(0.001) of line 90 is
\* shorter than a time unit
schedule_next_run ==
    /\ pc = "schedule"
    /\ LET nr == Advanced
           nap_time == nr - now
       IN IF Overrun(nap_time)
          THEN /\ next_run' = now
               /\ tick' = [tick EXCEPT !.warned = @ + 1, !.anchor = now,
                                       !.onTime = 0]
               /\ pc' = "loop_check"
          ELSE /\ next_run' = nr
               /\ pc' = "watch"
               /\ UNCHANGED tick
    /\ UNCHANGED <<flags, ctl, now, conf, env, reloadFrom, nTerm, nInt, hup,
                   seqLog, boot>>

\* dcs.watch(timeout): the time at which a wait begun now and not woken
\* returns False
WatchTimeout(timeout) == now + timeout

\* variant: a notification ends the wait and leaves next_run alone
Woken_kept(t) == next_run

\* line 94: self.next_run = time.time(), read at time t
Woken(t) == t

\* lines 93-94: dcs.watch(nap_time) times out at next_run (False) or is
\* woken by a change at time t before that (True)
watch ==
    /\ pc = "watch"
    /\ \/ /\ WatchTimeout(next_run - now) <= MaxTime
          /\ now' = WatchTimeout(next_run - now)
          /\ tick' = [tick EXCEPT !.onTime = @ + 1]
          /\ UNCHANGED next_run
       \/ \E t \in now..(next_run - 1) :
             /\ t <= MaxTime
             /\ now' = t
             /\ next_run' = Woken(t)
             /\ tick' = [tick EXCEPT !.anchor = t, !.onTime = 0]
    /\ pc' = "loop_check"
    /\ UNCHANGED <<flags, ctl, conf, env, reloadFrom, nTerm, nInt, hup,
                   seqLog, boot>>

\* ---------------------------------------------------------------- finally
\* a call of the finally block raises: the exception leaves main()
SeqRaise(call) ==
    /\ seqLog' = Append(seqLog, call)
    /\ Unwind("Error")
    /\ UNCHANGED env

\* the finally block ends: the exception in flight, if any, goes on
SeqEnd ==
    /\ pc' = "exited"
    /\ exitVia' = IF pending = "none" THEN "return" ELSE pending
    /\ UNCHANGED <<pending, nSeq, seqStart>>

\* line 136
api_shutdown ==
    /\ pc = "api_shutdown"
    /\ \/ /\ seqLog' = Append(seqLog, "api_shutdown")
          /\ apiUp' = FALSE
          /\ pc' = "is_paused"
          /\ UNCHANGED <<ctl, leader, pgRunning, tick, hup>>
       \/ SeqRaise("api_shutdown")
    /\ UNCHANGED <<flags, clock, conf, reloadFrom, nTerm, nInt, boot>>

\* variant: the finally block without the test of line 137
SkipStopAndDelete_never(p) == FALSE

\* lines 137-139: when paused, only the log line runs
SkipStopAndDelete(p) == p

\* lines 137-139
is_paused ==
    /\ pc = "is_paused"
    /\ \/ \E p \in BOOLEAN :
             /\ seqLog' = Append(seqLog, "is_paused")
             /\ pausedSeen' = (IF p THEN "yes" ELSE "no")
             /\ IF SkipStopAndDelete(p)
                THEN SeqEnd
                ELSE /\ pc' = "pg_stop"
                     /\ UNCHANGED <<pending, exitVia, nSeq, seqStart>>
             /\ UNCHANGED <<env, tick, hup>>
       \/ SeqRaise("is_paused")
    /\ UNCHANGED <<flags, clock, conf, reloadFrom, nTerm, nInt, boot>>

\* line 140: postgresql.stop(checkpoint=False)
pg_stop ==
    /\ pc = "pg_stop"
    /\ \/ /\ seqLog' = Append(seqLog, "stop_nocheckpoint")
          /\ pgRunning' = FALSE
          /\ pc' = "delete_leader"
          /\ UNCHANGED <<ctl, leader, apiUp, tick, hup>>
       \/ SeqRaise("stop_nocheckpoint")
    /\ UNCHANGED <<flags, clock, conf, reloadFrom, nTerm, nInt, boot>>

\* line 141
delete_leader ==
    /\ pc = "delete_leader"
    /\ \/ /\ seqLog' = Append(seqLog, "delete_leader")
          /\ leader' = FALSE
          /\ SeqEnd
          /\ UNCHANGED <<pausedSeen, pgRunning, apiUp, tick, hup>>
       \/ SeqRaise("delete_leader")
    /\ UNCHANGED <<flags, clock, conf, reloadFrom, nTerm, nInt, boot>>

\* ---------------------------------------------------------------- spec
Next ==
    \/ sighup_handler
    \/ sigterm_handler
    \/ sigint_default
    \/ get_cluster
    \/ boot_apply
    \/ boot_push
    \/ construct
    \/ api_start
    \/ loop_check
    \/ check_sighup
    \/ clear_sighup
    \/ reload_local
    \/ rc_tags
    \/ rc_propagate
    \/ run_cycle
    \/ cluster_check
    \/ save_cache
    \/ reap_children
    \/ schedule_next_run
    \/ watch
    \/ api_shutdown
    \/ is_paused
    \/ pg_stop
    \/ delete_leader

Spec == Init /\ [][Next]_vars

\* ================================================================ claims
FullSequence ==
    <<"api_shutdown", "is_paused", "stop_nocheckpoint", "delete_leader">>

\* a step that delivers no terminate signal and no interrupt
NoExitSignal == nTerm' = nTerm /\ nInt' = nInt /\ received_sigterm' = received_sigterm

\* C1: whenever the process has exited after at least one terminate signal
\* was delivered, the finally block of main() (the Shutdown Sequencer) was
\* entered exactly once.
C1_ExactlyOnce ==
    (pc = "exited" /\ nTerm >= 1) => nSeq = 1

\* C2: whenever the process has exited and is_paused() answered false, the
\* finally block made exactly the calls api.shutdown, is_paused,
\* stop(checkpoint=False), delete_leader in this order, the datastore is
\* stopped and the leadership record is gone.
C2_NormalShutdown ==
    (pc = "exited" /\ pausedSeen = "no") =>
        /\ seqLog = FullSequence
        /\ ~pgRunning
        /\ ~leader

\* C3: once is_paused() has answered true, the process has exited with the
\* status API shut down, the finally block has called nothing but
\* api.shutdown and is_paused, and the leadership record and the datastore
\* are as they were when the finally block began; they are also unchanged
\* from its beginning up to the answer.
C3_PausedShutdown ==
    /\ pausedSeen = "yes" =>
          /\ pc = "exited"
          /\ seqLog = <<"api_shutdown", "is_paused">>
          /\ <<leader, pgRunning>> = seqStart
          /\ ~apiUp
    /\ pc \in {"api_shutdown", "is_paused"} => <<leader, pgRunning>> = seqStart

\* C3 witness: a paused shutdown of a running leader has completed
C3_Witness ==
    /\ pc = "exited"
    /\ pausedSeen = "yes"
    /\ leader
    /\ pgRunning
    /\ exitVia = "SystemExit"

\* C4 as stated: at each check, reload_local_configuration is called once
\* if at least one reload signal was delivered since the previous read of
\* the flag (line 101), and not at all otherwise.
C4_BetweenReads ==
    pc = "run_cycle" =>
        tick.reloadLocal = (IF tick.hupN THEN 1 ELSE 0)

\* C4 amended: the flag is set exactly when a reload signal was delivered
\* since it was last cleared (line 102), so it is false right after the
\* clear; at each check reload_local_configuration is called exactly once
\* if at least one reload signal was delivered since the last clear, however
\* many, and not at all otherwise.
C4_Coalesced ==
    /\ pc \in CtorPcs \cup RunPcs =>
          (received_sighup <=> hup.sinceClear >= 1)
    /\ pc = "reload_local" => (~received_sighup \/ hup.sinceClear >= 1)
    /\ pc = "run_cycle" =>
          tick.reloadLocal = (IF tick.hupC >= 1 THEN 1 ELSE 0)
    /\ tick.reloadLocal <= 1

\* C4 witness: two reload signals were delivered before a check and the
\* check made one reload call
C4_Witness ==
    /\ pc = "run_cycle"
    /\ tick.hupC = 2
    /\ tick.reloadLocal = 1
    /\ ~received_sighup

\* C5: a first terminate signal delivered while run() is blocked in
\* dcs.watch with time remaining moves control to the finally block at the
\* same instant, and once the terminate flag is set no HA cycle starts.
C5_WaitInterrupted ==
    [][ /\ (pc = "watch" /\ ~received_sigterm /\ received_sigterm') =>
              /\ next_run - now \in 1..LoopWait
              /\ pc' = "api_shutdown"
              /\ nSeq' = nSeq + 1
              /\ now' = now
        /\ received_sigterm => ~(pc = "run_cycle" /\ pc' = "cluster_check")
        /\ received_sigterm' => pc' \notin RunPcs ]_vars

\* C5 witness: the finally block begins after a terminate signal that
\* arrived with the whole interval still to wait
C5_Witness ==
    /\ pc = "api_shutdown"
    /\ pending = "SystemExit"
    /\ received_sigterm
    /\ next_run - now = LoopWait

\* C6: the terminate flag never goes back to false, and a terminate signal
\* delivered while it is set changes nothing.
C6_TerminateSticky ==
    [][ /\ received_sigterm => received_sigterm'
        /\ (received_sigterm /\ nTerm' # nTerm) =>
              UNCHANGED <<pc, received_sighup, received_sigterm, pending,
                          exitVia, now, next_run, dyn, cfgTags, tags,
                          cluster, leader, pgRunning, apiUp, reloadFrom,
                          nInt, hup, nSeq, seqLog, seqStart, pausedSeen,
                          tick, boot>> ]_vars

\* C6 witness: a second terminate signal arrived while the finally block
\* was running, and the block still ran to its end
C6_Witness ==
    /\ pc = "exited"
    /\ nTerm = 2
    /\ exitVia = "SystemExit"
    /\ seqLog = FullSequence

\* C7: every DCSError in load_dynamic_configuration leads back to
\* dcs.get_cluster, however many came before; the loop is left for the rest
\* of __init__ only after a pass whose store calls all succeeded (a signal
\* can only end the process), and run() is reached only that way.
C7_BootstrapRetries ==
    [][ /\ (pc \in BootPcs /\ NoExitSignal /\ boot'.lastErr /\ boot' # boot)
              => pc' = "get_cluster"
        /\ pc \in BootPcs => pc' \in BootPcs \cup {"construct", "exited"}
        /\ (pc \in BootPcs /\ pc' = "construct") => ~boot.lastErr /\ ~boot'.lastErr
        /\ pc' \in RunPcs => pc \in RunPcs \cup {"construct"}
        /\ (pc \in BootPcs /\ pc' = "exited") => ~NoExitSignal ]_vars

\* C7 witness: the loop is still fetching after MaxFail failures
C7_Witness ==
    /\ pc = "get_cluster"
    /\ boot.failures = MaxFail
    /\ boot.lastErr

\* dcs.reload_config is being called or was called in the current pass
PushCalled == pc = "boot_push" \/ boot.pushes >= 1

\* C8 as stated: after lines 40-45 of a pass, a snapshot with a
\* configuration was merged and pushed iff it changed the configuration;
\* otherwise, with nothing cached and a bootstrap section, the section's dcs
\* value was applied and pushed; otherwise nothing was pushed; at most one
\* push per pass.
C8_SeedAlwaysPushed ==
    pc \in {"boot_push", "construct"} =>
        /\ boot.pushes + (IF pc = "boot_push" THEN 1 ELSE 0) <= 1
        /\ IF boot.snapshot > 0
           THEN /\ dyn = boot.snapshot
                /\ boot.branch = "merge"
                /\ PushCalled <=> (boot.dynBefore # boot.snapshot)
           ELSE IF boot.dynBefore = 0 /\ boot.bootDcs >= 0
                THEN /\ dyn = boot.bootDcs
                     /\ PushCalled
                ELSE /\ dyn = boot.dynBefore
                     /\ ~PushCalled

\* C8 amended: as stated, except that in the seed branch the section's dcs
\* value is pushed iff applying it changed the local configuration.
C8_BootstrapPass ==
    pc \in {"boot_push", "construct"} =>
        /\ boot.pushes + (IF pc = "boot_push" THEN 1 ELSE 0) <= 1
        /\ IF boot.snapshot > 0
           THEN /\ dyn = boot.snapshot
                /\ boot.branch = "merge"
                /\ PushCalled <=> (boot.dynBefore # boot.snapshot)
           ELSE IF boot.dynBefore = 0 /\ boot.bootDcs >= 0
                THEN /\ dyn = boot.bootDcs
                     /\ boot.branch = "seed"
                     /\ PushCalled <=> (boot.bootDcs # boot.dynBefore)
                ELSE /\ dyn = boot.dynBefore
                     /\ boot.branch = "none"
                     /\ ~PushCalled

\* C8 witness: no cluster record, nothing cached, a bootstrap section: the
\* section's value was pushed
C8_Witness ==
    /\ pc = "construct"
    /\ boot.snapshot = -1
    /\ boot.dynBefore = 0
    /\ boot.bootDcs = 1
    /\ dyn = 1
    /\ boot.pushes = 1

C10_BestEffort ==
    (pc = "exited" /\ exitVia = "Error") =>
        /\ \E i \in 1..Len(seqLog) : seqLog[i] = "is_paused"
        /\ pausedSeen = "no" =>
              /\ \E i \in 1..Len(seqLog) : seqLog[i] = "stop_nocheckpoint"
              /\ \E i \in 1..Len(seqLog) : seqLog[i] = "delete_leader"

\* C11: whenever the loop condition is evaluated, next_run is the value it
\* last took from the clock plus LoopWait for every tick completed since
\* by a wait that timed out; after such a tick it is the value at the
\* start of that tick plus exactly LoopWait, whatever the work took.
C11_NoDrift ==
    pc = "loop_check" =>
        /\ next_run = tick.anchor + tick.onTime * LoopWait
        /\ tick.onTime >= 1 => next_run = tick.start + LoopWait

\* C11 witness: two ticks in a row ended by a wait that timed out
C11_Witness ==
    /\ pc = "loop_check"
    /\ tick.onTime = 2
    /\ tick.anchor = 0
    /\ next_run = 2 * LoopWait

\* C12: a step of schedule_next_run taken when now has reached the
\* advanced next_run sets next_run to now, logs one warning, does not
\* enter the wait and goes to the loop condition with the clock unmoved;
\* any other step of schedule_next_run enters the wait and logs nothing; a
\* warning is logged by no other step and at most once in a tick.
C12_Overrun ==
    [][ /\ (pc = "schedule" /\ pc' \in {"loop_check", "watch"}) =>
              IF now >= next_run + LoopWait
              THEN /\ next_run' = now
                   /\ now' = now
                   /\ pc' = "loop_check"
                   /\ tick'.warned = tick.warned + 1
              ELSE /\ pc' = "watch"
                   /\ tick'.warned = tick.warned
        /\ tick'.warned > tick.warned =>
              (pc = "schedule" /\ now >= next_run + LoopWait)
        /\ tick'.warned <= 1 ]_vars

\* C12 witness: a tick whose work took more than LoopWait has ended
C12_Witness ==
    /\ pc = "loop_check"
    /\ tick.warned = 1
    /\ next_run = now
    /\ now > tick.start + LoopWait

\* C13: a wait woken at a time before next_run sets next_run to that time
\* and goes to the loop condition at that time; a tick that ends without
\* an overrun warning reaches the loop condition no later than LoopWait
\* after the next_run it started with.
C13_EarlyWake ==
    [][ /\ (pc = "watch" /\ pc' = "loop_check" /\ now' < next_run) =>
              next_run' = now'
        /\ (pc \in {"schedule", "watch"} /\ pc' = "loop_check"
                /\ tick'.warned = 0) =>
              now' <= tick.start + LoopWait ]_vars

\* C13 witness: a wait was woken strictly inside the interval
C13_Witness ==
    /\ pc = "loop_check"
    /\ tick.ha = 1
    /\ tick.warned = 0
    /\ tick.onTime = 0
    /\ next_run = now
    /\ tick.start < now
    /\ now < tick.start + LoopWait

\* the calls made so far in the current tick: reload_local_configuration,
\* run_cycle, the pass of lines 108-110, save_cache, reap_children
Done ==
    <<tick.reloadLocal, tick.ha, tick.reconciled, tick.saved, tick.reaped>>

LocalDone == IF tick.sawHup THEN 1 ELSE 0

SaveDone == IF tick.dirInit THEN 1 ELSE 0

\* C14: at every statement of the loop body exactly the steps before it
\* have run, each once: the local reload iff line 101 read the flag set,
\* then one run_cycle, then the pass of lines 108-110, then save_cache iff
\* the data directory was found initialised, then reap_children, then
\* schedule_next_run; a tick that reaches the loop condition again has
\* run them all.
C14_TickOrder ==
    /\ pc \in {"check_sighup", "clear_sighup"} => Done = <<0, 0, 0, 0, 0>>
    /\ pc = "reload_local" => (tick.sawHup /\ Done = <<0, 0, 0, 0, 0>>)
    /\ (pc \in ReloadPcs /\ reloadFrom = "local") =>
          Done = <<1, 0, 0, 0, 0>>
    /\ pc = "run_cycle" => Done = <<LocalDone, 0, 0, 0, 0>>
    /\ pc = "cluster_check" => Done = <<LocalDone, 1, 0, 0, 0>>
    /\ (pc \in ReloadPcs /\ reloadFrom = "cluster") =>
          Done = <<LocalDone, 1, 1, 0, 0>>
    /\ pc = "save_cache" => Done = <<LocalDone, 1, 1, 0, 0>>
    /\ pc = "reap" => Done = <<LocalDone, 1, 1, SaveDone, 0>>
    /\ pc \in {"schedule", "watch"} =>
          Done = <<LocalDone, 1, 1, SaveDone, 1>>
    /\ pc = "loop_check" =>
          \/ Done = <<0, 0, 0, 0, 0>> /\ tick.start = 0
          \/ Done = <<LocalDone, 1, 1, SaveDone, 1>>

\* C14 witness: a tick with a local reload and a saved cache has ended
C14_Witness ==
    /\ pc = "loop_check"
    /\ tick.sawHup
    /\ tick.dirInit
    /\ Done = <<1, 1, 1, 1, 1>>

\* C15: no step lowers next_run except a wait woken before next_run, which
\* sets it to the time of the wake; whenever the loop condition is reached
\* next_run is at least what it was when the condition was last evaluated
\* and at most the current time.
C15_Monotone ==
    [][ /\ next_run' < next_run =>
              (pc = "watch" /\ now' < next_run /\ next_run' = now')
        /\ pc' = "loop_check" =>
              (tick'.start <= next_run' /\ next_run' <= now') ]_vars

\* C15 witness: a wait woken at once, the tick starts where the previous
\* one started
C15_Witness ==
    /\ pc = "loop_check"
    /\ tick.ha = 1
    /\ tick.reaped = 1
    /\ tick.warned = 0
    /\ tick.onTime = 0
    /\ tick.start > 0
    /\ next_run = tick.start

\* a step that delivers a reload signal (and is not a stuttering step)
HupDelivered ==
    \/ received_sighup' /\ ~received_sighup
    \/ hup'.sinceClear > hup.sinceClear
    \/ hup'.sinceRead /\ ~hup.sinceRead

\* a step that delivers a terminate signal (counted up to MaxTerm)
TermDelivered == nTerm' > nTerm

\* C16: a step that delivers a reload signal sets received_sighup and
\* changes nothing else of the program, its collaborators or the calls
\* made; a step that delivers a terminate signal sets received_sigterm
\* and, apart from the transfer of control of the first delivery, changes
\* nothing else and makes no call.
C16_HandlerFrame ==
    [][ /\ HupDelivered =>
              /\ received_sighup'
              /\ UNCHANGED <<pc, received_sigterm, ctl, clock, conf, env,
                             reloadFrom, seqLog, tick, boot>>
        /\ TermDelivered =>
              /\ received_sigterm'
              /\ UNCHANGED <<received_sighup, clock, conf, env, reloadFrom,
                             seqLog, boot, pausedSeen>>
              /\ IF received_sigterm
                 THEN UNCHANGED <<pc, ctl, tick>>
                 ELSE /\ pc' \in {"api_shutdown", "exited"}
                      /\ tick' = NewTick ]_vars

\* C16 witness: both handlers have run, the terminate handler in the loop
C16_Witness ==
    /\ pc = "api_shutdown"
    /\ pending = "SystemExit"
    /\ nTerm = 1
    /\ received_sighup
    /\ received_sigterm
    /\ leader

\* C17: whenever the process has exited after is_paused() answered false
\* and no call of the finally block raised, the finally block has made all
\* four calls, the datastore is stopped and the leadership record is gone.
C17_SequencerCompletes ==
    (pc = "exited" /\ pausedSeen = "no" /\ exitVia # "Error") =>
        /\ seqLog = FullSequence
        /\ ~pgRunning
        /\ ~leader

\* C18: while the loop can still read the flag, a reload signal that no
\* call of reload_local_configuration has begun after is still recorded in
\* received_sighup, or the flag has just been cleared and the call of
\* line 103 is the next statement.
C18_NoReloadLost ==
    (pc \in CtorPcs \cup RunPcs /\ hup.unserved) =>
        (received_sighup \/ pc = "reload_local")

\* C18 witness: a reload signal delivered between the read of line 101 and
\* the clear of line 102 was followed by the call of line 103
C18_Witness ==
    /\ pc = "run_cycle"
    /\ tick.reloadLocal = 1
    /\ hup.sinceRead
    /\ ~received_sighup
    /\ ~hup.unserved

\* C19: whenever the loop condition is evaluated, self.tags is the filter
\* of the tags section of the current configuration.
C19_TagsCurrent ==
    pc = "loop_check" => tags = get_tags(cfgTags)

\* C19 witness: a local reload changed the tags section, its propagation
\* to the store failed, and no cluster-triggered reload followed
C19_Witness ==
    /\ pc = "loop_check"
    /\ tick.reloadLocal = 1
    /\ tick.failedAt = "rc_dcs"
    /\ cluster <= 0
    /\ <<"clonefrom", 0>> \in cfgTags
    /\ <<"clonefrom", 0>> \notin tags
    /\ <<"nofailover", 1>> \in tags

\* C20: when load_dynamic_configuration returns, no change of the local
\* configuration made by one of its passes is left without a successful
\* dcs.reload_config after it.
C20_ChangePushed ==
    pc = "construct" => ~boot.unpushed

====
